---- MODULE Spec2Model ----
(***************************************************************************)
(* Alivvia Gestao (app.py): the transaction base (transactions.csv), the   *)
(* rule list (rules.json) and the handlers that change them: import of an  *)
(* extract, manual entries, reconciliation (match), and the monthly        *)
(* reports.  Amounts are integers in cents; text is TLA+ strings handled   *)
(* character by character; md5 is taken to be injective, so a tx_id is the *)
(* text that the code feeds to md5.  The columns created_at and updated_at *)
(* hold wall-clock stamps that no handler reads; the model keeps, in op,   *)
(* the set of rows whose stamps the last handler wrote.  An assignment     *)
(* df.loc[rows, columns] = values is the field-wise assignment it denotes. *)
(* The lists of categories and suppliers stay as shipped: the buttons that *)
(* add to categories.json and suppliers.json are not pressed.              *)
(***************************************************************************)
EXTENDS Integers, Sequences, FiniteSets, TLC

VARIABLES txs, rules, nonce, op, report

vars == <<txs, rules, nonce, op, report>>

\* ------------------------------------------------------------------------
\* Bounds of the model
\* ------------------------------------------------------------------------
MaxTx == 3
MaxManual == 1
MaxRules == 7
MaxRegras == 8

\* ------------------------------------------------------------------------
\* Text helpers (str.lower, str.contains, str.replace, re.findall)
\* ------------------------------------------------------------------------
UpperAlpha == "ABCDEFGHIJKLMNOPQRSTUVWXYZ"
LowerAlpha == "abcdefghijklmnopqrstuvwxyz"
DigitChars == "0123456789"

CharAt(s, i) == SubSeq(s, i, i)

InStr(c, s) == \E i \in 1..Len(s) : CharAt(s, i) = c

IndexOf(c, s) == CHOOSE i \in 1..Len(s) : CharAt(s, i) = c

CharsOf(s) == { CharAt(s, i) : i \in 1..Len(s) }

UpperSet == CharsOf(UpperAlpha)
AlnumSet == CharsOf(UpperAlpha) \cup CharsOf(LowerAlpha) \cup CharsOf(DigitChars)
DigitSet == CharsOf(DigitChars)

LowerMap == [c \in UpperSet |-> CharAt(LowerAlpha, IndexOf(c, UpperAlpha))]
DigitMap == [c \in DigitSet |-> IndexOf(c, DigitChars) - 1]

LowerChar(c) == IF c \in UpperSet THEN LowerMap[c] ELSE c

RECURSIVE str_lower(_)
str_lower(s) == IF s = "" THEN "" ELSE LowerChar(CharAt(s, 1)) \o str_lower(SubSeq(s, 2, Len(s)))

\* str.contains(t) for a literal term t: t occurs somewhere in s
str_contains(s, t) == \E i \in 1..(Len(s) - Len(t) + 1) : SubSeq(s, i, i + Len(t) - 1) = t

RECURSIVE str_replace(_, _, _)
str_replace(s, a, b) ==
    IF s = "" THEN ""
    ELSE (IF CharAt(s, 1) = a THEN b ELSE CharAt(s, 1)) \o str_replace(SubSeq(s, 2, Len(s)), a, b)

IsAlnum(c) == c \in AlnumSet

IsDigits(s) == Len(s) > 0 /\ \A i \in 1..Len(s) : CharAt(s, i) \in DigitSet

\* length of the run of alphanumeric characters of s that starts at i
RECURSIVE RunLen(_, _)
RunLen(s, i) == IF i > Len(s) \/ ~IsAlnum(CharAt(s, i)) THEN 0 ELSE 1 + RunLen(s, i + 1)

\* re.findall(r"[a-zA-Z0-9]{4,}", s)[0], or "" when findall returns []
RECURSIVE FirstTokenFrom(_, _)
FirstTokenFrom(s, i) ==
    IF i > Len(s) THEN ""
    ELSE LET n == RunLen(s, i)
         IN IF n >= 4 THEN SubSeq(s, i, i + n - 1)
            ELSE FirstTokenFrom(s, i + n + 1)

FirstToken(s) == FirstTokenFrom(s, 1)

\* str.strip(chars): leading and trailing characters of the set cs removed
RECURSIVE str_strip_chars(_, _)
str_strip_chars(s, cs) ==
    IF s = "" THEN ""
    ELSE IF CharAt(s, 1) \in cs THEN str_strip_chars(SubSeq(s, 2, Len(s)), cs)
    ELSE IF CharAt(s, Len(s)) \in cs THEN str_strip_chars(SubSeq(s, 1, Len(s) - 1), cs)
    ELSE s

\* str.strip(): leading and trailing blanks removed
str_strip(s) == str_strip_chars(s, {" "})

\* ------------------------------------------------------------------------
\* Numbers: parsing of amounts and the text of a float
\* ------------------------------------------------------------------------
RECURSIVE NatOfDigits(_)
NatOfDigits(s) ==
    IF s = "" THEN 0
    ELSE 10 * NatOfDigits(SubSeq(s, 1, Len(s) - 1)) + DigitMap[CharAt(s, Len(s))]

RECURSIVE NatStr(_)
NatStr(n) == IF n < 10 THEN CharAt(DigitChars, n + 1)
             ELSE NatStr(n \div 10) \o CharAt(DigitChars, (n % 10) + 1)

\* cents of an unsigned decimal numeral "ddd" or "ddd.d" or "ddd.dd"; -1 if it is not one
UnsignedCents(s) ==
    IF IsDigits(s) THEN 100 * NatOfDigits(s)
    ELSE IF \E i \in 2..(Len(s) - 1) :
               /\ CharAt(s, i) = "."
               /\ IsDigits(SubSeq(s, 1, i - 1))
               /\ IsDigits(SubSeq(s, i + 1, Len(s)))
               /\ Len(s) - i <= 2
         THEN LET i == CHOOSE j \in 2..(Len(s) - 1) : CharAt(s, j) = "."
                  f == SubSeq(s, i + 1, Len(s))
              IN 100 * NatOfDigits(SubSeq(s, 1, i - 1))
                   + (IF Len(f) = 1 THEN 10 * NatOfDigits(f) ELSE NatOfDigits(f))
         ELSE -1

\* pd.to_numeric(v, errors="coerce").fillna(0.0), in cents
to_numeric(v) ==
    LET neg  == Len(v) > 0 /\ CharAt(v, 1) = "-"
        body == IF neg THEN SubSeq(v, 2, Len(v)) ELSE v
        c    == UnsignedCents(body)
    IN IF c < 0 THEN 0 ELSE IF neg THEN 0 - c ELSE c

\* the normalisation of the columns valor and saldo at import
parse_valor(raw) == to_numeric(str_replace(str_replace(raw, ".", ""), ",", "."))

\* str(float): the text of an amount inside the f-string of tx_id
float_str(c) ==
    LET a == IF c < 0 THEN 0 - c ELSE c
        f == a % 100
    IN (IF c < 0 THEN "-" ELSE "") \o NatStr(a \div 100) \o "."
         \o (IF f % 10 = 0 THEN NatStr(f \div 10) ELSE NatStr(f \div 10) \o NatStr(f % 10))

\* ------------------------------------------------------------------------
\* Dates
\* ------------------------------------------------------------------------
IsIsoDate(s) ==
    /\ Len(s) = 10
    /\ CharAt(s, 5) = "-" /\ CharAt(s, 8) = "-"
    /\ IsDigits(SubSeq(s, 1, 4)) /\ IsDigits(SubSeq(s, 6, 7)) /\ IsDigits(SubSeq(s, 9, 10))

\* pd.to_datetime(x, errors="coerce").dt.date, as the text str() gives
parse_data(raw) == IF IsIsoDate(raw) THEN raw ELSE "NaT"

year_of(d) == IF d = "NaT" THEN -1 ELSE NatOfDigits(SubSeq(d, 1, 4))
month_of(d) == IF d = "NaT" THEN -1 ELSE NatOfDigits(SubSeq(d, 6, 7))

\* ------------------------------------------------------------------------
\* Constants of the program
\* ------------------------------------------------------------------------
CAT_REPASSE == "Receita > Vendas (repasse marketplace)"
CAT_DEVOLUCAO == "Receita > Estorno/Devolução"
CAT_TAXAS == "Deduções > Taxas/Chargebacks (marketplace)"
CAT_FRETE == "Custo > Frete"
CAT_FORNECEDORES == "Custo > Aquisição/Fornecedores"
CAT_MARKETING == "Despesas > Marketing"
CAT_TARIFAS == "Despesas > Tarifas bancárias"

DEFAULT_CATEGORIES ==
    { CAT_REPASSE, CAT_DEVOLUCAO, CAT_TAXAS, CAT_FRETE, "Custo > Embalagens/Envio",
      CAT_FORNECEDORES, CAT_MARKETING, "Despesas > Salários/Encargos", "Despesas > Aluguel",
      "Despesas > Utilidades", "Despesas > Administrativas", "Despesas > Impostos/Taxas",
      CAT_TARIFAS, "Financeiro > Juros/Multas", "Investimento > Imobilizado/Equipamentos",
      "Transferência intra-grupo", "Retirada Social", "Outros" }

ADD_NOVA == "+ Adicionar nova..."
ADD_NOVO == "+ Adicionar novo..."

DEFAULT_RULES ==
    << [contains |-> <<"entrada de dinheiro", "pix recebido", "pix credito", "qrcode pix", "pix mercado">>,
        in_doc |-> <<>>, category |-> CAT_REPASSE, supplier |-> ""],
       [contains |-> <<"estorno", "reembolso", "devolu">>,
        in_doc |-> <<>>, category |-> CAT_DEVOLUCAO, supplier |-> ""],
       [contains |-> <<"tarifa", "iof", "chargeback", "debito">>,
        in_doc |-> <<>>, category |-> CAT_TAXAS, supplier |-> ""],
       [contains |-> <<"tarifa", "iof", "taxa">>,
        in_doc |-> <<>>, category |-> CAT_TARIFAS, supplier |-> ""],
       [contains |-> <<"jadlog", "correios", "total express">>,
        in_doc |-> <<>>, category |-> CAT_FRETE, supplier |-> ""],
       [contains |-> <<"thor", "fornecedor">>,
        in_doc |-> <<>>, category |-> CAT_FORNECEDORES, supplier |-> "Thor"] >>

AUTO_NO_MATCH_CATS == { CAT_TAXAS, CAT_TARIFAS }

\* ------------------------------------------------------------------------
\* Automatic classification
\* ------------------------------------------------------------------------
\* the columns descricao_low and doc_low of one row
low_cols(tx) == [descricao_low |-> str_lower(tx.descricao), doc_low |-> str_lower(tx.doc)]

\* the mask of one rule on one row: a term of "contains" occurs in the
\* lower-cased description, or a term of "in_doc" in the lower-cased doc
rule_mask(r, low) ==
    \/ \E k \in 1..Len(r.contains) : str_contains(low.descricao_low, r.contains[k])
    \/ \E k \in 1..Len(r.in_doc) : str_contains(low.doc_low, r.in_doc[k])

\* a variant that writes category and supplier whether or not they are empty
apply_rule_overwrite(r, tx, m) ==
    LET cat == IF r.category # "" /\ m THEN r.category ELSE tx.categoria
        sup == IF r.supplier # "" /\ m THEN r.supplier ELSE tx.fornecedor
        st  == IF m /\ tx.valor < 0 /\ cat \in AUTO_NO_MATCH_CATS THEN "N/A" ELSE tx.status_match
    IN [tx EXCEPT !.categoria = cat, !.fornecedor = sup, !.status_match = st]

\* the body of the loop over the rules, for one row
apply_rule(r, tx, m) ==
    LET cat == IF r.category # "" /\ m /\ tx.categoria = "" THEN r.category ELSE tx.categoria
        sup == IF r.supplier # "" /\ m /\ tx.fornecedor = "" THEN r.supplier ELSE tx.fornecedor
        st  == IF m /\ tx.valor < 0 /\ cat \in AUTO_NO_MATCH_CATS THEN "N/A" ELSE tx.status_match
    IN [tx EXCEPT !.categoria = cat, !.fornecedor = sup, !.status_match = st]

\* the loop over the rules, for one row
RECURSIVE classify_row(_, _, _, _)
classify_row(tx, low, rs, k) ==
    IF k > Len(rs) THEN tx
    ELSE classify_row(apply_rule(rs[k], tx, rule_mask(rs[k], low)), low, rs, k + 1)

apply_auto_classification(df, rs) ==
    IF df = <<>> THEN df
    ELSE [i \in 1..Len(df) |-> classify_row(df[i], low_cols(df[i]), rs, 1)]

\* a variant that takes the token as written, without lower-casing
learn_rule_sem_lower(descricao, categoria, fornecedor) ==
    LET token == FirstToken(str_strip(descricao))
    IN IF str_strip(descricao) = "" \/ categoria = "" THEN <<>>
       ELSE IF token = "" THEN <<>>
       ELSE << [contains |-> <<token>>, in_doc |-> <<>>, category |-> categoria, supplier |-> fornecedor] >>

\* the learned rule, as a list: <<>> stands for None
learn_rule_from_match(descricao, categoria, fornecedor) ==
    LET desc_low == str_lower(str_strip(descricao))
        token    == FirstToken(desc_low)
    IN IF desc_low = "" \/ categoria = "" THEN <<>>
       ELSE IF token = "" THEN <<>>
       ELSE << [contains |-> <<token>>, in_doc |-> <<>>, category |-> categoria, supplier |-> fornecedor] >>

\* ------------------------------------------------------------------------
\* Inputs of the model: companies, accounts, extract files, column mappings
\* ------------------------------------------------------------------------
Empresas == {"Alivvia", "JCA"}

RawRow(d, t, r, v, b) ==
    [RELEASE_DATE |-> d, TRANSACTION_TYPE |-> t, REFERENCE_ID |-> r,
     TRANSACTION_NET_AMOUNT |-> v, PARTIAL_BALANCE |-> b]

\* three payouts of one day
FileRepasses ==
    << RawRow("2024-03-01", "Pix recebido", "r1", "10,00", "10,00"),
       RawRow("2024-03-01", "Pix recebido", "r2", "5,00", "15,00"),
       RawRow("2024-03-01", "Pix recebido", "r3", "2,50", "17,50") >>

\* outflows: a bank fee and a purchase that no default rule knows
FileSaidas ==
    << RawRow("2024-03-02", "Tarifa TED", "t1", "-1,00", "16,50"),
       RawRow("2024-03-02", "Loja Alfa compra", "b1", "-20,00", "-3,50") >>

\* two different rows whose fields differ only around the separator, and an
\* outflow without a long word whose amount is written with a decimal point
FileSeparador ==
    << RawRow("2024-03-03", "Loja-Beta", "x", "-5,00", ""),
       RawRow("2024-03-03", "Loja", "Beta-x", "-5,00", ""),
       RawRow("2024-03-04", "TED 01", "d1", "-7.50", "") >>

Files == { FileRepasses, FileSaidas, FileSeparador }

VAZIO == "(vazio)"

col_map_defaults ==
    [data |-> "RELEASE_DATE", descricao |-> "TRANSACTION_TYPE", doc |-> "REFERENCE_ID",
     valor |-> "TRANSACTION_NET_AMOUNT", saldo |-> "PARTIAL_BALANCE"]

map_sem_valor == [col_map_defaults EXCEPT !.valor = VAZIO]

\* the imports tried: each extract of Files for Alivvia with the default
\* mapping, one extract for JCA, and one import with the amount column left
\* unmapped
ImportInputs ==
    { [raw |-> f, empresa |-> "Alivvia", conta |-> "Mercado Pago", map_data |-> col_map_defaults] : f \in Files }
    \cup { [raw |-> FileSaidas, empresa |-> "JCA", conta |-> "Mercado Pago", map_data |-> col_map_defaults],
           [raw |-> FileSeparador, empresa |-> "Alivvia", conta |-> "Mercado Pago", map_data |-> map_sem_valor] }

\* ------------------------------------------------------------------------
\* Import of an extract ("Processar e Importar")
\* ------------------------------------------------------------------------
\* the text hashed by md5 for an imported row
tx_id_extrato(empresa, conta, data, descricao, doc, valor) ==
    empresa \o "-" \o conta \o "-" \o data \o "-" \o descricao \o "-" \o doc \o "-" \o float_str(valor)

\* one column of tmp: the mapped source column, or "" when the field is not mapped
mapped_col(row, map_data, k) == IF map_data[k] # VAZIO THEN row[map_data[k]] ELSE ""

\* a variant whose default status treats a zero amount as an outflow
tmp_row_zero_pendente(row, map_data, empresa, conta) ==
    LET data  == parse_data(mapped_col(row, map_data, "data"))
        desc  == mapped_col(row, map_data, "descricao")
        doc   == mapped_col(row, map_data, "doc")
        valor == parse_valor(mapped_col(row, map_data, "valor"))
        saldo == parse_valor(mapped_col(row, map_data, "saldo"))
    IN [tx_id |-> tx_id_extrato(empresa, conta, data, desc, doc, valor),
        empresa |-> empresa, conta |-> conta, data |-> data, descricao |-> desc, doc |-> doc,
        valor |-> valor, saldo |-> saldo, categoria |-> "", fornecedor |-> "", nf |-> "",
        parcela |-> "", datas_livres |-> <<>>,
        status_match |-> IF valor <= 0 THEN "Pendente" ELSE "N/A",
        origem |-> "EXTRATO"]

\* one row of tmp after the normalisations and the fixed fields
tmp_row(row, map_data, empresa, conta) ==
    LET data  == parse_data(mapped_col(row, map_data, "data"))
        desc  == mapped_col(row, map_data, "descricao")
        doc   == mapped_col(row, map_data, "doc")
        valor == parse_valor(mapped_col(row, map_data, "valor"))
        saldo == parse_valor(mapped_col(row, map_data, "saldo"))
    IN [tx_id |-> tx_id_extrato(empresa, conta, data, desc, doc, valor),
        empresa |-> empresa, conta |-> conta, data |-> data, descricao |-> desc, doc |-> doc,
        valor |-> valor, saldo |-> saldo, categoria |-> "", fornecedor |-> "", nf |-> "",
        parcela |-> "", datas_livres |-> <<>>,
        status_match |-> IF valor < 0 THEN "Pendente" ELSE "N/A",
        origem |-> "EXTRATO"]

\* a variant that keeps every row
drop_duplicates_keep_all(df) == df

\* DataFrame.drop_duplicates(subset=["tx_id"], keep="first")
RECURSIVE drop_duplicates(_)
drop_duplicates(df) ==
    IF df = <<>> THEN <<>>
    ELSE LET init == drop_duplicates(SubSeq(df, 1, Len(df) - 1))
             last == df[Len(df)]
         IN IF \E i \in 1..Len(init) : init[i].tx_id = last.tx_id THEN init ELSE Append(init, last)

TxIds(df) == { df[i].tx_id : i \in 1..Len(df) }

\* a variant that reports the size of the base instead of the new rows
novos_lancamentos_total(merged, before) == Len(merged)

\* the count of the message "N novos lançamentos adicionados"
novos_lancamentos(merged, before) == Len(merged) - before

NoReport == [shown |-> FALSE]

\* "Processar e Importar", with the base kept to at most limite rows
ImportAte(limite, raw, empresa, conta, map_data) ==
    LET tmp    == [i \in 1..Len(raw) |-> tmp_row(raw[i], map_data, empresa, conta)]
        before == Len(txs)
        merged == drop_duplicates(txs \o tmp)
        arg    == [raw |-> raw, empresa |-> empresa, conta |-> conta, map_data |-> map_data]
    IN /\ Len(merged) <= limite
       /\ txs' = apply_auto_classification(merged, rules)
       /\ op' = [kind |-> "import", arg |-> arg, tx_id |-> "",
                 touched |-> TxIds(merged) \ TxIds(txs),
                 added |-> novos_lancamentos(merged, before),
                 again |-> (op.kind = "import" /\ op.arg = arg),
                 out |-> "Importação concluída."]
       /\ report' = NoReport
       /\ UNCHANGED <<rules, nonce>>

Import(raw, empresa, conta, map_data) == ImportAte(MaxTx, raw, empresa, conta, map_data)

\* ------------------------------------------------------------------------
\* Manual entries ("Lançamentos"): new, edit, delete
\* ------------------------------------------------------------------------
Fornecedores == {"", "Thor"}

\* uuid.uuid4() of the n-th manual entry
uuid4(n) == "u" \o NatStr(n)

\* the text hashed by md5 for a manual entry
tx_id_manual(empresa, conta, data, descricao, doc, valor, uuid) ==
    empresa \o "-" \o conta \o "-" \o data \o "-" \o descricao \o "-" \o doc \o "-" \o float_str(valor)
      \o "-" \o uuid

\* the forms filled in by the user in this model (company of the side bar included)
ManualForms ==
    { [empresa |-> "Alivvia", data |-> "2024-03-05", valor |-> -3000, conta |-> "Mercado Pago", doc |-> "", descricao |-> "Boleto Thor",
       categoria |-> CAT_FORNECEDORES, fornecedor |-> "Thor", nf |-> "", parcela |-> "", datas_livres |-> <<>>],
      [empresa |-> "Alivvia", data |-> "2024-03-05", valor |-> 5000, conta |-> "Mercado Pago", doc |-> "", descricao |-> "Aporte",
       categoria |-> ADD_NOVA, fornecedor |-> "", nf |-> "", parcela |-> "", datas_livres |-> <<>>],
      [empresa |-> "Alivvia", data |-> "2024-03-05", valor |-> -3000, conta |-> "Mercado Pago", doc |-> "", descricao |-> "Boleto Thor",
       categoria |-> CAT_FORNECEDORES, fornecedor |-> "Thor", nf |-> "", parcela |-> "1/2",
       datas_livres |-> <<"2024-04-05">>] }

\* the last handler run: its button, its inputs (for reabrir and desfazer
\* the status it found), the transaction it was aimed at, the rows whose
\* updated_at it wrote, and the message it showed
Op(kind, arg, tx_id, touched, out) ==
    [kind |-> kind, arg |-> arg, tx_id |-> tx_id, touched |-> touched, added |-> 0, again |-> FALSE,
     out |-> out]

\* "Salvar lançamento": json.dumps in save_transactions raises TypeError on a
\* list of dates, before anything is written
NovoLancamento(empresa, f) ==
    LET base == [tx_id |-> tx_id_manual(empresa, f.conta, f.data, f.descricao, f.doc, f.valor, uuid4(nonce + 1)),
                 empresa |-> empresa, conta |-> f.conta, data |-> f.data, descricao |-> f.descricao,
                 doc |-> f.doc, valor |-> f.valor, saldo |-> 0, categoria |-> f.categoria,
                 fornecedor |-> f.fornecedor, nf |-> f.nf, parcela |-> f.parcela,
                 datas_livres |-> f.datas_livres,
                 status_match |-> IF f.valor < 0 THEN "Pendente" ELSE "N/A",
                 origem |-> "MANUAL"]
    IN /\ nonce < MaxManual
       /\ Len(txs) < MaxTx
       /\ nonce' = nonce + 1
       /\ IF f.datas_livres # <<>>
          THEN /\ txs' = txs
               /\ op' = Op("novo", f, base.tx_id, {}, "TypeError")
          ELSE /\ txs' = Append(txs, base)
               /\ op' = Op("novo", f, base.tx_id, {base.tx_id}, "Lançamento criado com sucesso.")
       /\ report' = NoReport
       /\ UNCHANGED rules

\* df[df["tx_id"] == txid].iloc[0]
RowOf(df, txid) == df[CHOOSE i \in 1..Len(df) : df[i].tx_id = txid /\ \A j \in 1..(i - 1) : df[j].tx_id # txid]

\* the entries offered for edit/delete: those of the company with origin
\* MANUAL (check box "Somente origem MANUAL" as shown, "Mostrar apenas mês
\* atual" cleared)
ListaLanc(empresa) ==
    { txs[i].tx_id : i \in { j \in 1..Len(txs) : txs[j].empresa = empresa /\ txs[j].origem = "MANUAL" } }

\* the edits typed by the user in this model: a new amount and a category
EditForms == { [valor |-> 1500, categoria |-> CAT_MARKETING], [valor |-> -1500, categoria |-> CAT_TAXAS] }

\* "Salvar alterações": amount and category changed by the user, the other
\* widgets left at the values they show
EditarLancamento(empresa, txid, e) ==
    /\ txid \in ListaLanc(empresa)
    /\ e.categoria \in DEFAULT_CATEGORIES
    /\ LET row   == RowOf(txs, txid)
           e_sup == IF row.fornecedor \in Fornecedores THEN row.fornecedor ELSE ""
           upd(t) == LET t1 == [t EXCEPT !.valor = e.valor, !.categoria = e.categoria, !.fornecedor = e_sup]
                     IN IF e.valor < 0 /\ t.status_match = "N/A"
                        THEN [t1 EXCEPT !.status_match = "Pendente"] ELSE t1
       IN txs' = [i \in 1..Len(txs) |-> IF txs[i].tx_id = txid THEN upd(txs[i]) ELSE txs[i]]
    /\ op' = Op("editar", e, txid, {txid}, "Alterações salvas.")
    /\ report' = NoReport
    /\ UNCHANGED <<rules, nonce>>

\* "Excluir lançamento"
ExcluirLancamento(empresa, txid) ==
    /\ txid \in ListaLanc(empresa)
    /\ txs' = SelectSeq(txs, LAMBDA t : t.tx_id # txid)
    /\ op' = Op("excluir", <<>>, txid, {}, "Lançamento excluído.")
    /\ report' = NoReport
    /\ UNCHANGED <<rules, nonce>>

\* ------------------------------------------------------------------------
\* Reconciliation ("Conciliação"): Salvar Match, Editar (reabrir), Desfazer
\* ------------------------------------------------------------------------
StatusFiltros == {"Pendente", "Todos (saídas)"}

\* a variant that offers the inflows too
Options_com_entradas(empresa, status) ==
    { txs[i].tx_id : i \in { j \in 1..Len(txs) :
          /\ txs[j].empresa = empresa
          /\ (status = "Pendente" => txs[j].status_match = "Pendente") } }

\* the tx_ids of the select box "Lançamento": outflows of the company, and
\* only the pending ones under the filter "Pendente" (the optional filters
\* of date, category and text are left empty)
Options(empresa, status) ==
    { txs[i].tx_id : i \in { j \in 1..Len(txs) :
          /\ txs[j].empresa = empresa
          /\ txs[j].valor < 0
          /\ (status = "Pendente" => txs[j].status_match = "Pendente") } }

\* the user opens the page looking for a transaction that the select box
\* does not offer: nothing can be clicked for it
ConciliacaoSemOpcao(empresa, status, txid) ==
    /\ txid \notin Options(empresa, status)
    /\ txid = "" <=> txs = <<>>
    /\ op' = Op("sem_opcao", <<>>, txid, {},
                IF txs = <<>> THEN "Nenhum lançamento. Importe um extrato primeiro."
                ELSE IF Options(empresa, status) = {} THEN "Nada para conciliar no filtro atual."
                ELSE "")
    /\ report' = NoReport
    /\ UNCHANGED <<txs, rules, nonce>>

\* the match forms filled in by the user in this model; category and supplier
\* are stored ones, or the entries "+ Adicionar nova..." and "+ Adicionar
\* novo..." with no new name typed
MatchForms ==
    { [categoria |-> CAT_FRETE, fornecedor |-> "Thor", nf |-> "NF1", parcela |-> "1/3", datas_livres |-> <<>>],
      [categoria |-> ADD_NOVA, fornecedor |-> ADD_NOVO, nf |-> "", parcela |-> "", datas_livres |-> <<>>],
      [categoria |-> CAT_FRETE, fornecedor |-> "", nf |-> "", parcela |-> "", datas_livres |-> <<"2024-03-10">>] }

\* a variant that puts the learned rule behind the stored ones
rules_append(rule, rs) == rs \o rule

\* rules.insert(0, rule), when a rule was learned
rules_insert(rule, rs) == rule \o rs

\* "Salvar Match": json.dumps in save_transactions raises TypeError on a list
\* of dates, before anything is written and before the rule is learned.  The
\* rule list is kept to at most limite rules.
SalvarMatchAte(limite, empresa, status, txid, f) ==
    /\ txid \in Options(empresa, status)
    /\ f.categoria \in DEFAULT_CATEGORIES \cup {ADD_NOVA}
    /\ f.fornecedor \in Fornecedores \cup {ADD_NOVO}
    /\ LET row  == RowOf(txs, txid)
           rule == learn_rule_from_match(row.descricao, f.categoria, f.fornecedor)
       IN IF f.datas_livres # <<>>
          THEN /\ txs' = txs
               /\ rules' = rules
               /\ op' = Op("salvar_match", f, txid, {}, "TypeError")
          ELSE /\ Len(rules_insert(rule, rules)) <= limite
               /\ txs' = [i \in 1..Len(txs) |->
                            IF txs[i].tx_id = txid
                            THEN [txs[i] EXCEPT !.categoria = f.categoria, !.fornecedor = f.fornecedor,
                                                !.nf = f.nf, !.parcela = f.parcela,
                                                !.datas_livres = f.datas_livres,
                                                !.status_match = "Conciliado"]
                            ELSE txs[i]]
               /\ rules' = rules_insert(rule, rules)
               /\ op' = Op("salvar_match", f, txid, {txid}, "Match salvo e regra aprendida (quando possível).")
    /\ report' = NoReport
    /\ UNCHANGED nonce

SalvarMatch(empresa, status, txid, f) == SalvarMatchAte(MaxRules, empresa, status, txid, f)

\* a variant that reopens by clearing the note and the instalment as well
ReabrirMatch_limpa(empresa, status, txid) ==
    /\ txid \in Options(empresa, status)
    /\ txs' = [i \in 1..Len(txs) |->
                 IF txs[i].tx_id = txid
                 THEN [txs[i] EXCEPT !.nf = "", !.parcela = "", !.status_match = "Pendente"]
                 ELSE txs[i]]
    /\ op' = Op("reabrir", [antes |-> RowOf(txs, txid).status_match], txid, {txid}, "Match reaberto para edição.")
    /\ report' = NoReport
    /\ UNCHANGED <<rules, nonce>>

\* "Editar (reabrir) Match"
ReabrirMatch(empresa, status, txid) ==
    /\ txid \in Options(empresa, status)
    /\ txs' = [i \in 1..Len(txs) |->
                 IF txs[i].tx_id = txid
                 THEN [txs[i] EXCEPT !.status_match = "Pendente"]
                 ELSE txs[i]]
    /\ op' = Op("reabrir", [antes |-> RowOf(txs, txid).status_match], txid, {txid}, "Match reaberto para edição.")
    /\ report' = NoReport
    /\ UNCHANGED <<rules, nonce>>

\* "Desfazer (limpar campos)"
DesfazerMatch(empresa, status, txid) ==
    /\ txid \in Options(empresa, status)
    /\ txs' = [i \in 1..Len(txs) |->
                 IF txs[i].tx_id = txid
                 THEN [txs[i] EXCEPT !.categoria = "", !.fornecedor = "", !.nf = "", !.parcela = "",
                                     !.datas_livres = <<>>, !.status_match = "Pendente"]
                 ELSE txs[i]]
    /\ op' = Op("desfazer", [antes |-> RowOf(txs, txid).status_match], txid, {txid}, "Match desfeito.")
    /\ report' = NoReport
    /\ UNCHANGED <<rules, nonce>>

\* ------------------------------------------------------------------------
\* Reports ("Relatórios"): DRE of the month and accounting ledger
\* ------------------------------------------------------------------------
\* code-point order of the characters that occur in the model's texts
AsciiOrder == " ()+,-./0123456789:>ABCDEFGHIJKLMNOPQRSTUVWXYZabcdefghijklmnopqrstuvwxyz|"

CharRank == [c \in CharsOf(AsciiOrder) |-> IndexOf(c, AsciiOrder)]

RECURSIVE StrLess(_, _)
StrLess(a, b) ==
    IF b = "" THEN FALSE
    ELSE IF a = "" THEN TRUE
    ELSE IF CharAt(a, 1) = CharAt(b, 1) THEN StrLess(SubSeq(a, 2, Len(a)), SubSeq(b, 2, Len(b)))
    ELSE CharRank[CharAt(a, 1)] < CharRank[CharAt(b, 1)]

\* the order of sort_values(by=["data", "descricao"])
RowLess(r1, r2) == StrLess(r1.data, r2.data) \/ (r1.data = r2.data /\ StrLess(r1.descricao, r2.descricao))

RECURSIVE sort_values(_)
sort_values(df) ==
    IF df = <<>> THEN <<>>
    ELSE LET init == sort_values(SubSeq(df, 1, Len(df) - 1))
             last == df[Len(df)]
             k    == Cardinality({ i \in 1..Len(init) : ~RowLess(last, init[i]) })
         IN SubSeq(init, 1, k) \o <<last>> \o SubSeq(init, k + 1, Len(init))

RECURSIVE SumValor(_)
SumValor(df) == IF df = <<>> THEN 0 ELSE SumValor(SubSeq(df, 1, Len(df) - 1)) + df[Len(df)].valor

\* what str() shows for a text column read back from the csv: an empty cell is NaN
cell_text(x) == IF x = "" THEN "nan" ELSE x

ReportInputs ==
    { [empresa |-> "Alivvia", ano |-> 2024, mes |-> 3],
      [empresa |-> "JCA", ano |-> 2024, mes |-> 3] }

\* dfE: the rows of the company and month
dfE_of(empresa, ano, mes) ==
    SelectSeq(txs, LAMBDA t : t.empresa = empresa /\ year_of(t.data) = ano /\ month_of(t.data) = mes)

\* entradas_por_dia: the payouts received (valor > 0), summed by day
entradas_por_dia(dfE) ==
    LET rep == SelectSeq(dfE, LAMBDA t : t.categoria = CAT_REPASSE /\ t.valor > 0)
    IN [d \in { rep[i].data : i \in 1..Len(rep) } |-> SumValor(SelectSeq(rep, LAMBDA t : t.data = d))]

RECURSIVE SumFcn(_)
SumFcn(f) == IF DOMAIN f = {} THEN 0
             ELSE LET d == CHOOSE x \in DOMAIN f : TRUE
                  IN f[d] + SumFcn([x \in DOMAIN f \ {d} |-> f[x]])

\* despesas: the outflows summed by category
despesas_of(dfE) ==
    LET neg == SelectSeq(dfE, LAMBDA t : t.valor < 0)
    IN [c \in { neg[i].categoria : i \in 1..Len(neg) } |-> SumValor(SelectSeq(neg, LAMBDA t : t.categoria = c))]

\* one row of contabil_out
contabil_row(t, saldo) ==
    [Data |-> t.data, Descricao |-> t.descricao,
     Destino |-> str_strip_chars(cell_text(t.categoria) \o " | " \o cell_text(t.fornecedor), {" ", "|"}),
     Entrada |-> 0,
     Saida |-> IF t.valor < 0 THEN 0 - t.valor ELSE 0,
     NF |-> IF str_strip(t.nf) = "" THEN "S/NF" ELSE str_strip(t.nf),
     SaldoAcumulado |-> saldo, Empresa |-> t.empresa]

\* the accounting ledger when the month has no payout row: the other rows,
\* sorted, with Entrada overwritten by 0.0 and the running sum of valor
contabil_of(saidas) ==
    LET srt == sort_values(saidas)
    IN [i \in 1..Len(srt) |-> contabil_row(srt[i], SumValor(SubSeq(srt, 1, i)))]

\* relatorios_view.  The DRE is shown first.  With a payout row in the
\* month, the selection of the column "empresa" from ent_group then raises
\* KeyError.  With no row in the month, rep.apply(..., axis=1) returns a
\* frame and the assignment to rep["destino"] may raise ValueError.
Relatorio(empresa, ano, mes) ==
    IF txs = <<>>
    THEN /\ report' = NoReport
         /\ op' = Op("relatorio", [empresa |-> empresa, ano |-> ano, mes |-> mes], "", {},
                     "Nenhum lançamento. Importe um extrato primeiro.")
         /\ UNCHANGED <<txs, rules, nonce>>
    ELSE LET dfE           == dfE_of(empresa, ano, mes)
             por_dia       == entradas_por_dia(dfE)
             receita_bruta == SumFcn(por_dia)
             devol         == SumValor(SelectSeq(dfE, LAMBDA t : t.categoria = CAT_DEVOLUCAO))
             receita_liq   == receita_bruta + devol
             despesas      == despesas_of(dfE)
             total_desp    == SumFcn(despesas)
             entradas      == SelectSeq(dfE, LAMBDA t : t.categoria = CAT_REPASSE)
             saidas        == SelectSeq(dfE, LAMBDA t : t.categoria # CAT_REPASSE)
             dre           == [shown |-> TRUE, empresa |-> empresa, ano |-> ano, mes |-> mes,
                               entradas_por_dia |-> por_dia, receita_bruta |-> receita_bruta,
                               devol |-> devol, receita_liq |-> receita_liq, despesas |-> despesas,
                               total_desp |-> total_desp, resultado |-> receita_liq + total_desp]
         IN /\ \E erro \in (IF entradas # <<>> THEN {"KeyError"}
                            ELSE IF dfE = <<>> THEN {"", "ValueError"} ELSE {""}) :
                 /\ report' = [shown |-> TRUE, dre |-> dre,
                               erro |-> erro,
                               contabil |-> IF erro = "" THEN contabil_of(saidas) ELSE <<>>]
                 /\ op' = Op("relatorio", [empresa |-> empresa, ano |-> ano, mes |-> mes], "", {}, erro)
            /\ UNCHANGED <<txs, rules, nonce>>

\* "Limpar base (cuidado!)": transactions.csv is removed
LimparBase ==
    /\ txs' = <<>>
    /\ op' = Op("limpar", <<>>, "", {}, "Base apagada. Reimporte seus extratos.")
    /\ report' = NoReport
    /\ UNCHANGED <<rules, nonce>>

Init ==
    /\ txs = <<>>
    /\ rules = DEFAULT_RULES
    /\ nonce = 0
    /\ op = Op("start", <<>>, "", {}, "")
    /\ report = NoReport

Next ==
    \/ \E a \in ImportInputs : Import(a.raw, a.empresa, a.conta, a.map_data)
    \/ \E f \in ManualForms : NovoLancamento(f.empresa, f)
    \/ \E empresa \in Empresas, txid \in TxIds(txs), e \in EditForms : EditarLancamento(empresa, txid, e)
    \/ \E empresa \in Empresas, txid \in TxIds(txs) : ExcluirLancamento(empresa, txid)
    \/ \E empresa \in Empresas, status \in StatusFiltros, txid \in TxIds(txs) \cup {""} :
          ConciliacaoSemOpcao(empresa, status, txid)
    \/ \E empresa \in Empresas, status \in StatusFiltros, txid \in TxIds(txs), f \in MatchForms :
          SalvarMatch(empresa, status, txid, f)
    \/ \E empresa \in Empresas, status \in StatusFiltros, txid \in TxIds(txs) :
          ReabrirMatch(empresa, status, txid)
    \/ \E empresa \in Empresas, status \in StatusFiltros, txid \in TxIds(txs) :
          DesfazerMatch(empresa, status, txid)
    \/ \E r \in ReportInputs : Relatorio(r.empresa, r.ano, r.mes)
    \/ LimparBase

Spec == Init /\ [][Next]_vars

\* The rule list at work: one extract, imported and imported again, and the
\* reconciliation buttons, with room for two learned rules.
NextRegras ==
    \/ Import(FileSaidas, "Alivvia", "Mercado Pago", col_map_defaults)
    \/ \E status \in StatusFiltros, txid \in TxIds(txs), f \in MatchForms :
          SalvarMatchAte(MaxRegras, "Alivvia", status, txid, f)
    \/ \E status \in StatusFiltros, txid \in TxIds(txs) : ReabrirMatch("Alivvia", status, txid)
    \/ \E status \in StatusFiltros, txid \in TxIds(txs) : DesfazerMatch("Alivvia", status, txid)

SpecRegras == Init /\ [][NextRegras]_vars

\* Learning from matches on its own: the extract whose descriptions carry a
\* long word behind a separator and one without any long word, and the three
\* buttons of the reconciliation screen.
NextAprende ==
    \/ Import(FileSeparador, "Alivvia", "Mercado Pago", col_map_defaults)
    \/ \E status \in StatusFiltros, txid \in TxIds(txs), f \in MatchForms :
          SalvarMatch("Alivvia", status, txid, f)
    \/ \E status \in StatusFiltros, txid \in TxIds(txs) : ReabrirMatch("Alivvia", status, txid)
    \/ \E status \in StatusFiltros, txid \in TxIds(txs) : DesfazerMatch("Alivvia", status, txid)

SpecAprende == Init /\ [][NextAprende]_vars

\* The DRE at work: an extract of one month with a payout, a return and two
\* other outflows, the reconciliation buttons, and the report of that month.
MaxTxDRE == 4

FileDRE ==
    << RawRow("2024-03-01", "Pix recebido", "p1", "1.000,00", ""),
       RawRow("2024-03-05", "Estorno venda", "e1", "-50,00", ""),
       RawRow("2024-03-06", "Jadlog coleta", "f1", "-100,00", ""),
       RawRow("2024-03-07", "Anuncio", "m1", "-80,00", "") >>

DREForms ==
    { [categoria |-> CAT_MARKETING, fornecedor |-> "", nf |-> "", parcela |-> "", datas_livres |-> <<>>] }

NextDRE ==
    \/ ImportAte(MaxTxDRE, FileDRE, "Alivvia", "Mercado Pago", col_map_defaults)
    \/ \E status \in StatusFiltros, txid \in TxIds(txs), f \in DREForms :
          SalvarMatchAte(MaxRules, "Alivvia", status, txid, f)
    \/ \E status \in StatusFiltros, txid \in TxIds(txs) : ReabrirMatch("Alivvia", status, txid)
    \/ \E status \in StatusFiltros, txid \in TxIds(txs) : DesfazerMatch("Alivvia", status, txid)
    \/ Relatorio("Alivvia", 2024, 3)

SpecDRE == Init /\ [][NextDRE]_vars

\* The parsing of amounts at work: extracts of two rows that carry the same
\* amount, written once with a decimal point and no grouping (doc "ponto")
\* and once with grouped thousands and a decimal comma (doc "virgula").
MaxTxValor == 4

ValorTextos ==
    { [ponto |-> "1234.56", virgula |-> "1.234,56"],
      [ponto |-> "-1234.56", virgula |-> "-1.234,56"],
      [ponto |-> "7.50", virgula |-> "7,50"],
      [ponto |-> "-7.50", virgula |-> "-7,50"],
      [ponto |-> "0.05", virgula |-> "0,05"],
      [ponto |-> "-20.00", virgula |-> "-20,00"],
      [ponto |-> "15", virgula |-> "15,00"],
      [ponto |-> "-3", virgula |-> "-3,00"] }

FileValor(v) ==
    << RawRow("2024-03-08", "Compra", "ponto", v.ponto, ""),
       RawRow("2024-03-08", "Compra", "virgula", v.virgula, "") >>

NextValor ==
    \/ \E v \in ValorTextos, empresa \in Empresas :
          ImportAte(MaxTxValor, FileValor(v), empresa, "Mercado Pago", col_map_defaults)
    \/ LimparBase

SpecValor == Init /\ [][NextValor]_vars

\* The status at work: the match form saved as the page shows it for the
\* chosen row (the select boxes stand at the row's category and supplier,
\* or at the first entry of the sorted lists), imports, manual entries and
\* edits.
FormPadrao(row) ==
    [categoria |-> IF row.categoria \in DEFAULT_CATEGORIES THEN row.categoria ELSE CAT_FORNECEDORES,
     fornecedor |-> IF row.fornecedor \in Fornecedores THEN row.fornecedor ELSE "",
     nf |-> row.nf, parcela |-> row.parcela, datas_livres |-> <<>>]

NextStatus ==
    \/ Import(FileSaidas, "Alivvia", "Mercado Pago", col_map_defaults)
    \/ \E f \in ManualForms : NovoLancamento(f.empresa, f)
    \/ \E txid \in TxIds(txs), e \in EditForms : EditarLancamento("Alivvia", txid, e)
    \/ \E status \in StatusFiltros, txid \in TxIds(txs) :
          SalvarMatch("Alivvia", status, txid, FormPadrao(RowOf(txs, txid)))
    \/ \E status \in StatusFiltros, txid \in TxIds(txs) : ReabrirMatch("Alivvia", status, txid)
    \/ \E status \in StatusFiltros, txid \in TxIds(txs) : DesfazerMatch("Alivvia", status, txid)

SpecStatus == Init /\ [][NextStatus]_vars

\* The default status of imported rows on its own. The first extract has a
\* bank fee, a purchase no default rule knows, an inflow, a row of amount
\* zero and a refund of a fee, which the refund rule takes before the fee
\* rules see it; the second has a purchase at a shop of the same first word
\* as the first extract's, for the rule learned from a match.
MaxTxPadrao == 6

FilePadrao ==
    << RawRow("2024-03-05", "Tarifa TED", "p1", "-1,00", ""),
       RawRow("2024-03-05", "Loja Alfa compra", "p2", "-20,00", ""),
       RawRow("2024-03-05", "Pix recebido", "p3", "10,00", ""),
       RawRow("2024-03-05", "Ajuste", "p4", "0,00", ""),
       RawRow("2024-03-05", "Estorno tarifa", "p5", "-3,00", "") >>

FileLojaGama ==
    << RawRow("2024-03-06", "Loja Gama", "g1", "-4,00", "") >>

\* the reconciliation form with a bank-tariff category chosen
FormTarifas ==
    [categoria |-> CAT_TARIFAS, fornecedor |-> "", nf |-> "", parcela |-> "", datas_livres |-> <<>>]

NextPadrao ==
    \/ \E f \in {FilePadrao, FileLojaGama} :
          ImportAte(MaxTxPadrao, f, "Alivvia", "Mercado Pago", col_map_defaults)
    \/ \E status \in StatusFiltros, txid \in TxIds(txs) :
          \E f \in {FormTarifas, FormPadrao(RowOf(txs, txid))} :
             SalvarMatch("Alivvia", status, txid, f)
    \/ \E status \in StatusFiltros, txid \in TxIds(txs) : ReabrirMatch("Alivvia", status, txid)
    \/ \E status \in StatusFiltros, txid \in TxIds(txs) : DesfazerMatch("Alivvia", status, txid)
    \/ LimparBase

SpecPadrao == Init /\ [][NextPadrao]_vars

\* ------------------------------------------------------------------------
\* Properties
\* ------------------------------------------------------------------------
Idx == 1..Len(txs)

\* C1: running "Processar e Importar" again on the same file (same company,
\* account and mapping) directly after the first run reports 0 new
\* transactions and leaves the number of stored transactions unchanged.
C1_IdempotentImportCount ==
    [][ (op'.kind = "import" /\ op'.again) => (op'.added = 0 /\ Len(txs') = Len(txs)) ]_vars

C1_Witness == op.kind = "import" /\ op.again /\ Len(txs) >= 2

\* C2: an import whose rows all exist already in the base (nothing added)
\* leaves every stored transaction with the field values it had.
C2_ReimportIsNoOp ==
    [][ (op'.kind = "import" /\ op'.added = 0) => txs' = txs ]_vars

\* C3: no two stored transactions share a tx_id.
C3_UniqueTxId == \A i, j \in Idx : i # j => txs[i].tx_id # txs[j].tx_id

C3_Witness ==
    /\ op.kind = "import" /\ op.added = 0
    /\ \E i, j \in Idx : txs[i].origem = "MANUAL" /\ txs[j].origem = "EXTRATO"

\* the identity tuple of a row
IdTuple(t) == <<t.empresa, t.conta, t.data, t.descricao, t.doc, t.valor>>

\* C4: rows of an imported file whose (company, account, date, description,
\* doc, amount) tuples differ get different tx_ids, so after the import each
\* of them is stored.
C4_IdentityInjective ==
    op.kind = "import" =>
        \A k \in 1..Len(op.arg.raw) :
            LET r == tmp_row(op.arg.raw[k], op.arg.map_data, op.arg.empresa, op.arg.conta)
            IN \E i \in Idx : IdTuple(txs[i]) = IdTuple(r)

\* C5: apply_auto_classification leaves a non-empty categoria and a non-empty
\* fornecedor as they were; it changes these fields only where they were
\* empty.  Checked for the stored rows under the stored rules.
C5_ClassificationFillsOnlyEmpty ==
    LET out == apply_auto_classification(txs, rules)
    IN \A i \in Idx :
          /\ (txs[i].categoria # "" => out[i].categoria = txs[i].categoria)
          /\ (txs[i].fornecedor # "" => out[i].fornecedor = txs[i].fornecedor)

\* a stored row has a category and a supplier, and a rule with another
\* category and another supplier matches it
C5_Witness ==
    \E i \in Idx, k \in 1..Len(rules) :
        /\ txs[i].categoria # "" /\ txs[i].fornecedor # ""
        /\ rule_mask(rules[k], low_cols(txs[i]))
        /\ rules[k].category \notin {"", txs[i].categoria}
        /\ rules[k].supplier \notin {"", txs[i].fornecedor}

\* the category of the earliest rule of rs, in list order, that matches tx
FirstMatchCategory(tx, rs) ==
    LET ks == { k \in 1..Len(rs) : rule_mask(rs[k], low_cols(tx)) }
    IN IF ks = {} THEN ""
       ELSE rs[CHOOSE k \in ks : \A j \in ks : k <= j].category

\* C6: the classification run by an import gives every row that had no
\* category (a new row, or a stored row whose category was empty) the
\* category of the earliest rule in list order that matches it; and the rule
\* list changes only by Salvar Match putting the learned rule in front of all
\* the rules stored before, so a rule learned later wins over an older one.
C6_RulePriority ==
    [][ /\ op'.kind = "import" =>
             \A i \in 1..Len(txs') :
                 (i > Len(txs) \/ txs[i].categoria = "")
                     => txs'[i].categoria = FirstMatchCategory(txs'[i], rules)
        /\ rules' # rules =>
             /\ op'.kind = "salvar_match"
             /\ Tail(rules') = rules
             /\ Head(rules').category = op'.arg.categoria ]_vars

\* two rules were learned, the one at the head last; both match a row, with
\* different categories, and so does a default rule; the row carries the
\* category of the head rule without the note saved with the match that
\* taught it: the match was undone and an import has just classified the row
C6_Witness ==
    /\ op.kind = "import"
    /\ Len(rules) = Len(DEFAULT_RULES) + 2
    /\ rules[1].category = CAT_FRETE
    /\ \E i \in Idx, k \in 3..Len(rules) :
          /\ txs[i].status_match = "Pendente" /\ txs[i].nf = ""
          /\ rule_mask(rules[1], low_cols(txs[i]))
          /\ rule_mask(rules[2], low_cols(txs[i]))
          /\ rule_mask(rules[k], low_cols(txs[i]))
          /\ rules[2].category # rules[1].category
          /\ rules[k].category \notin {rules[1].category, rules[2].category}
          /\ txs[i].categoria = rules[1].category

ReconcKinds == {"salvar_match", "reabrir", "desfazer", "sem_opcao"}

\* the row aimed at by the last handler is stored and is an inflow or zero
AlvoEntrada == \E i \in Idx : txs[i].tx_id = op.tx_id /\ txs[i].valor >= 0

C8_PlaceholderRejected ==
    [][ (op'.kind = "salvar_match" /\ op'.arg.categoria \notin DEFAULT_CATEGORIES)
          => (txs' = txs /\ rules' = rules) ]_vars

FrameCols(t) == <<t.tx_id, t.empresa, t.conta, t.data, t.descricao, t.doc, t.valor, t.saldo, t.origem>>

MatchCols(t) == <<t.categoria, t.fornecedor, t.nf, t.parcela, t.datas_livres>>

\* C9: Desfazer empties categoria, fornecedor, nf, parcela and datas_livres
\* of the chosen row and sets its status to Pendente, leaving its identity
\* fields alone; Reabrir sets its status to Pendente and leaves the match
\* fields as saved; both stamp that row only and change no other row.
C9_UndoVersusReopen ==
    [][ op'.kind \in {"desfazer", "reabrir"} =>
          /\ Len(txs') = Len(txs)
          /\ op'.touched = {op'.tx_id}
          /\ \A i \in Idx :
                IF txs[i].tx_id # op'.tx_id THEN txs'[i] = txs[i]
                ELSE /\ FrameCols(txs'[i]) = FrameCols(txs[i])
                     /\ txs'[i].status_match = "Pendente"
                     /\ op'.kind = "desfazer" => MatchCols(txs'[i]) = <<"", "", "", "", <<>>>>
                     /\ op'.kind = "reabrir" => MatchCols(txs'[i]) = MatchCols(txs[i]) ]_vars

\* a saved match has just been undone, and another row whose match was
\* saved and reopened still carries its note
C9_Witness ==
    /\ op.kind = "desfazer" /\ op.arg.antes = "Conciliado"
    /\ \E i \in Idx : txs[i].tx_id = op.tx_id /\ txs[i].categoria = ""
    /\ \E j \in Idx : /\ txs[j].tx_id # op.tx_id
                        /\ txs[j].status_match = "Pendente"
                        /\ txs[j].nf = "NF1" /\ txs[j].categoria = CAT_FRETE

\* the payout rows of the month of the report shown
RepassesDoMes ==
    SelectSeq(dfE_of(report.dre.empresa, report.dre.ano, report.dre.mes),
              LAMBDA t : t.categoria = CAT_REPASSE)

\* C10: for a month with payout rows the accounting ledger is produced and
\* has, for each day with a payout, exactly one consolidated row whose
\* Entrada is the sum of that day's payouts, and no single payout row; the
\* gross revenue of the DRE is the sum of those daily totals.
C10_LedgerConsolidatesPayouts ==
    (report.shown /\ RepassesDoMes # <<>>) =>
        /\ report.erro = ""
        /\ \A k \in 1..Len(RepassesDoMes) :
              LET d   == RepassesDoMes[k].data
                  dia == SumValor(SelectSeq(RepassesDoMes, LAMBDA t : t.data = d))
                  ls  == { n \in 1..Len(report.contabil) : report.contabil[n].Data = d }
              IN /\ Cardinality({ n \in ls : report.contabil[n].Entrada = dia }) = 1
                 /\ \A n \in ls : report.contabil[n].Descricao # RepassesDoMes[k].descricao
        /\ report.dre.receita_bruta = SumValor(RepassesDoMes)

\* the rows of the month of the report shown
MesDoRelatorio == dfE_of(report.dre.empresa, report.dre.ano, report.dre.mes)

IsRepasse(t) == t.categoria = CAT_REPASSE /\ t.valor > 0
IsDevolucao(t) == t.categoria = CAT_DEVOLUCAO /\ t.valor < 0
IsOutraSaida(t) == t.categoria \notin {CAT_REPASSE, CAT_DEVOLUCAO, ""} /\ t.valor < 0

\* C11: for a month made of payouts totalling G, returns (negative amounts)
\* totalling R and outflows of other expense categories totalling E, the DRE
\* shows net revenue G + R and result G + R + E, each return counted once.
C11_ResultArithmetic ==
    (/\ report.shown
     /\ \A i \in 1..Len(MesDoRelatorio) :
           IsRepasse(MesDoRelatorio[i]) \/ IsDevolucao(MesDoRelatorio[i]) \/ IsOutraSaida(MesDoRelatorio[i]))
    => LET G == SumValor(SelectSeq(MesDoRelatorio, IsRepasse))
           R == SumValor(SelectSeq(MesDoRelatorio, IsDevolucao))
           E == SumValor(SelectSeq(MesDoRelatorio, IsOutraSaida))
       IN /\ report.dre.receita_liq = G + R
          /\ report.dre.resultado = G + R + E

\* the internal fields that the specification calls mandatory
CamposObrigatorios == {"data", "descricao", "doc", "valor"}

\* C12: an import in which one of the fields data, descricao, doc, valor is
\* left unmapped fails as a whole: it does not end with the message of a
\* finished import, and it stores no transaction of the batch.
C12_UnmappedFieldRejected ==
    [][ (op'.kind = "import" /\ \E k \in CamposObrigatorios : op'.arg.map_data[k] = VAZIO)
          => (txs' = txs /\ op'.added = 0 /\ op'.out # "Importação concluída.") ]_vars

\* C13: every stored transaction with amount >= 0 has status N/A, never
\* Pendente or Conciliado.
C13_InboundAlwaysNA ==
    \A i \in Idx : txs[i].valor >= 0 => txs[i].status_match = "N/A"

\* the sign written in an amount text: -1, 0 or 1
SinalEscrito(v) ==
    IF \A k \in 1..Len(v) : CharAt(v, k) \notin CharsOf("123456789") THEN 0
    ELSE IF CharAt(v, 1) = "-" THEN -1 ELSE 1

Sinal(c) == IF c < 0 THEN -1 ELSE IF c > 0 THEN 1 ELSE 0

\* C14: after the import of an extract whose two rows carry the same amount,
\* the first written with a plain decimal point and the second with grouped
\* thousands and a decimal comma, both rows are stored with the same valor,
\* and its sign is the sign written in the file.
C14_BothFormatsParseAlike ==
    (op.kind = "import" /\ \E v \in ValorTextos : op.arg.raw = FileValor(v)) =>
        LET a == RowOf(txs, tmp_row(op.arg.raw[1], op.arg.map_data, op.arg.empresa, op.arg.conta).tx_id)
            b == RowOf(txs, tmp_row(op.arg.raw[2], op.arg.map_data, op.arg.empresa, op.arg.conta).tx_id)
        IN /\ a.valor = b.valor
           /\ Sinal(a.valor) = SinalEscrito(op.arg.raw[1].TRANSACTION_NET_AMOUNT)
           /\ Sinal(b.valor) = SinalEscrito(op.arg.raw[2].TRANSACTION_NET_AMOUNT)

\* C15: a transaction in status Conciliado stays Conciliado across imports
\* (with their classification pass) and manual edits; only Reabrir and
\* Desfazer take it out of that status.
C15_ConciliadoPersists ==
    [][ op'.kind \in {"import", "novo", "editar"} =>
          \A i \in Idx : txs[i].status_match = "Conciliado" =>
              \E j \in 1..Len(txs') : /\ txs'[j].tx_id = txs[i].tx_id
                                       /\ txs'[j].status_match = "Conciliado" ]_vars

\* the sum of Entrada - Saida over the first n rows of a ledger
RECURSIVE SomaMovimentos(_, _)
SomaMovimentos(c, n) ==
    IF n = 0 THEN 0 ELSE SomaMovimentos(c, n - 1) + c[n].Entrada - c[n].Saida

\* C16: in the accounting ledger shown, the rows are in (date, description)
\* order and the running balance of each row is the sum of Entrada - Saida
\* over the rows up to and including it.
C16_LedgerBalance ==
    (report.shown /\ report.erro = "") =>
        LET c == report.contabil
        IN /\ \A n \in 1..(Len(c) - 1) :
                 ~RowLess([data |-> c[n + 1].Data, descricao |-> c[n + 1].Descricao],
                          [data |-> c[n].Data, descricao |-> c[n].Descricao])
           /\ \A n \in 1..Len(c) : c[n].SaldoAcumulado = SomaMovimentos(c, n)

\* d has, at position p, a maximal run of n >= 4 letters and digits
TokenEm(d, p, n) ==
    /\ n >= 4 /\ p + n - 1 <= Len(d)
    /\ \A k \in p..(p + n - 1) : IsAlnum(CharAt(d, k))
    /\ (p = 1 \/ ~IsAlnum(CharAt(d, p - 1)))
    /\ (p + n - 1 = Len(d) \/ ~IsAlnum(CharAt(d, p + n)))

\* the positions of d at which such a run starts
InicioDeTokens(d) == { p \in 1..Len(d) : \E n \in 4..Len(d) : TokenEm(d, p, n) }

TemToken(d) == InicioDeTokens(d) # {}

\* the first such run of d
PrimeiroToken(d) ==
    LET ps == InicioDeTokens(d)
        p  == CHOOSE x \in ps : \A y \in ps : x <= y
        n  == CHOOSE m \in 4..Len(d) : TokenEm(d, p, m)
    IN SubSeq(d, p, p + n - 1)

C18_DefaultStatusAtImport ==
    [][ op'.kind = "import" =>
          \A i \in 1..Len(txs') :
             txs'[i].tx_id \in op'.touched =>
                txs'[i].status_match =
                   IF txs'[i].valor < 0
                   THEN (IF txs'[i].categoria \in AUTO_NO_MATCH_CATS THEN "N/A" ELSE "Pendente")
                   ELSE "N/A" ]_vars

\* an import has just added a purchase that a rule learned from a match put
\* under bank tariffs, while the base holds, from the import before, a fee
\* and a row of amount zero that need no match and a purchase and a refund
\* of a fee that wait for one
C18_Witness ==
    /\ op.kind = "import" /\ op.added = 1
    /\ \E i \in Idx : /\ txs[i].tx_id \in op.touched /\ txs[i].descricao = "Loja Gama"
                       /\ txs[i].valor < 0 /\ txs[i].categoria = CAT_TARIFAS
                       /\ txs[i].status_match = "N/A"
    /\ \E i \in Idx : /\ txs[i].descricao = "Tarifa TED" /\ txs[i].categoria = CAT_TAXAS
                       /\ txs[i].status_match = "N/A"
    /\ \E i \in Idx : /\ txs[i].descricao = "Ajuste" /\ txs[i].valor = 0
                       /\ txs[i].status_match = "N/A"
    /\ \E i \in Idx : /\ txs[i].descricao = "Estorno tarifa" /\ txs[i].categoria = CAT_DEVOLUCAO
                       /\ txs[i].status_match = "Pendente"
    /\ \E i \in Idx : /\ txs[i].descricao = "Pix recebido" /\ txs[i].valor > 0
                       /\ txs[i].status_match = "N/A"

====
